---- MODULE Spec2Model ----
(***************************************************************************)
(* N-Queens search (A* and greedy best-first) over incrementally filled    *)
(* boards: state.py, heuristics.py, algorithms.py, utils.py.               *)
(*                                                                         *)
(* A board is the positions list of NQueensState: a sequence of length n   *)
(* whose entry for a row is the queen's column (0..n-1) or -1 for an empty *)
(* row.  Rows are numbered from 1 here (Python numbers them from 0); only  *)
(* row differences enter the code, so nothing depends on the shift.        *)
(***************************************************************************)
EXTENDS Integers, Sequences, FiniteSets, Bags, TLC

(***************************************************************************)
(* Bounds of the model.                                                    *)
(***************************************************************************)
\* largest board searched with an unconstrained id() order
MaxArbN == 3
\* largest board searched with every column-ranked id() layout
MaxN == 4
\* largest board searched with the ascending and the descending id() layout
MaxDetN == 6
\* largest board given to the pure board functions
MaxBoardN == 4
\* board size of the end-to-end scenario
E2E_N == 8
\* least board size given to the callers of search(), negated
MaxNonPositive == 2
\* largest board size of the states compared with <
MaxLtN == 11

Abs(x) == IF x < 0 THEN -x ELSE x
Max(a, b) == IF a >= b THEN a ELSE b

\* value of a Python None (as a solution it is told from the board of
\* length 0 by solution_found)
None == << >>

(***************************************************************************)
(* state.py : NQueensState                                                 *)
(***************************************************************************)
\* NQueensState(n): the empty board
EmptyBoard(n) == [r \in 1..n |-> -1]

\* rows holding a queen (the list `queens` built by is_valid/count_conflicts)
PlacedRows(positions) == {r \in 1..Len(positions) : positions[r] # -1}

is_valid_nodiag(positions) ==
    \A r1 \in PlacedRows(positions) : \A r2 \in PlacedRows(positions) :
        r1 < r2 => positions[r1] # positions[r2]

is_valid(positions) ==
    \A r1 \in PlacedRows(positions) : \A r2 \in PlacedRows(positions) :
        r1 < r2 =>
            /\ positions[r1] # positions[r2]
            /\ Abs(r1 - r2) # Abs(positions[r1] - positions[r2])

count_conflicts(positions) ==
    Cardinality({p \in PlacedRows(positions) \X PlacedRows(positions) :
        /\ p[1] < p[2]
        /\ \/ positions[p[1]] = positions[p[2]]
           \/ Abs(p[1] - p[2]) = Abs(positions[p[1]] - positions[p[2]])})

count_queens(positions) == Cardinality(PlacedRows(positions))

is_goal_nofill(positions) == count_conflicts(positions) = 0

is_goal(positions) ==
    IF \E r \in 1..Len(positions) : positions[r] = -1
    THEN FALSE
    ELSE count_conflicts(positions) = 0

\* str() of an int of at most two digits, as the code points of its
\* characters: "-" is 45 and "0".."9" are 48..57
str_int(x) ==
    LET digits == IF Abs(x) < 10
                  THEN <<48 + Abs(x)>>
                  ELSE <<48 + (Abs(x) \div 10), 48 + (Abs(x) % 10)>>
    IN  IF x < 0 THEN <<45>> \o digits ELSE digits

\* the items of str() of a list from the k-th on: ", " is 44, 32
RECURSIVE str_items(_, _)
str_items(positions, k) ==
    IF k > Len(positions)
    THEN << >>
    ELSE (IF k > 1 THEN <<44, 32>> ELSE << >>)
            \o str_int(positions[k]) \o str_items(positions, k + 1)

\* str(self.positions): "[" is 91 and "]" is 93
str_list(positions) == <<91>> \o str_items(positions, 1) \o <<93>>

\* Python's < on two strings: the first differing character decides, a
\* proper prefix is less
str_less(a, b) ==
    \E k \in 1..(Len(b)) :
        /\ \A j \in 1..(k - 1) : j <= Len(a) /\ a[j] = b[j]
        /\ \/ k = Len(a) + 1
           \/ (k <= Len(a) /\ a[k] < b[k])

\* NQueensState.__lt__ on two states (the isinstance test holds)
__lt__(self, oth) == str_less(str_list(self), str_list(oth))

get_next_empty_row_last(positions) ==
    IF \E r \in 1..Len(positions) : positions[r] = -1
    THEN CHOOSE r \in 1..Len(positions) :
            /\ positions[r] = -1
            /\ \A q \in (r + 1)..Len(positions) : positions[q] # -1
    ELSE 0

\* first empty row, 0 standing for None
get_next_empty_row(positions) ==
    IF \E r \in 1..Len(positions) : positions[r] = -1
    THEN CHOOSE r \in 1..Len(positions) :
            /\ positions[r] = -1
            /\ \A q \in 1..(r - 1) : positions[q] # -1
    ELSE 0

Candidate_desc(positions, next_row, col) ==
    [positions EXCEPT ![next_row] = Len(positions) - 1 - col]

\* the candidate of get_successors for column col (0-based)
Candidate(positions, next_row, col) == [positions EXCEPT ![next_row] = col]

get_successors(positions) ==
    LET next_row == get_next_empty_row(positions)
    IN  IF next_row = 0
        THEN << >>
        ELSE SelectSeq([c \in 1..Len(positions) |->
                            Candidate(positions, next_row, c - 1)],
                       is_valid)

(***************************************************************************)
(* heuristics.py                                                           *)
(***************************************************************************)
attacking_pairs_heuristic(positions) == count_conflicts(positions)

remaining_queens_heuristic(positions) ==
    Len(positions) - count_queens(positions)

Heuristics == {"attacking_pairs", "remaining_queens"}

heuristic(h, positions) ==
    IF h = "attacking_pairs"
    THEN attacking_pairs_heuristic(positions)
    ELSE remaining_queens_heuristic(positions)

(***************************************************************************)
(* utils.py                                                                *)
(***************************************************************************)
validate_solution_cols(solution) ==
    LET n == Len(solution)
    IN  /\ \A r \in 1..n : ~(solution[r] < 0 \/ solution[r] >= n)
        /\ \A i \in 1..n : \A j \in (i + 1)..n : solution[i] # solution[j]

validate_solution(solution) ==
    LET n == Len(solution)
    IN  /\ \A r \in 1..n : ~(solution[r] < 0 \/ solution[r] >= n)
        /\ \A i \in 1..n : \A j \in (i + 1)..n :
              /\ solution[i] # solution[j]
              /\ Abs(i - j) # Abs(solution[i] - solution[j])

(***************************************************************************)
(* algorithms.py : the state of one search() call and of its caller        *)
(***************************************************************************)
VARIABLES
    n,                \* initial_state.n
    alg,              \* "astar" (AStarSearch) or "greedy" (GreedySearch)
    heur,             \* self.heuristic
    id_order,         \* what is known of id() on the NQueensState objects
    pc,               \* "loop": at the head of the while loop, "done": returned
    expired,          \* time.time() - start_time > timeout
    ended,            \* which return statement was taken
    run,              \* 1 or 2: the caller's first or second search() call
    first,            \* outcome of the first call, None during it
    open_set,         \* the heap, a bag of <<priority, g or depth, state>>
    g_score,          \* A*: state -> best known path cost
    came_from,        \* state -> predecessor
    visited,          \* greedy: set of finalized states
    states_generated,
    states_explored,
    max_depth,
    max_f_score,
    result,           \* the SearchResult being filled
    board,            \* argument of a direct call of a board function
    succs,            \* what get_successors() returned
    other,            \* second operand of a direct call of __lt__
    lt,               \* what __lt__ returned
    ret               \* what the predicates called on board returned

params == <<n, alg, heur>>
locals == <<open_set, g_score, came_from, visited, states_generated,
            states_explored, max_depth, max_f_score>>
pure == <<board, succs, other, lt, ret>>
vars == <<n, alg, heur, id_order, pc, expired, ended, run, first, open_set,
          g_score, came_from, visited, states_generated, states_explored,
          max_depth, max_f_score, result, board, succs, other, lt,
          ret>>

Algorithms == {"astar", "greedy"}

\* self.name
AlgorithmName(a) == IF a = "astar" THEN "A*" ELSE "Busca Gulosa"

\* SearchResult.__init__ (execution_time, a wall-clock reading, is left out)
SearchResult(algorithm, size) ==
    [algorithm |-> algorithm,
     n |-> size,
     solution |-> None,
     solution_found |-> FALSE,
     states_explored |-> 0,
     states_generated |-> 0,
     solution_depth |-> 0,
     solution_path |-> << >>,
     max_f_score |-> 0,
     max_depth |-> 0]

(***************************************************************************)
(* heapq: the entry heappop returns is the least tuple                     *)
(* (priority, g, id(state), state).  id() gives distinct integers to the   *)
(* live objects and is otherwise unconstrained.  id_order says what is     *)
(* known of it in a run: NoLayout leaves it unconstrained, so that any     *)
(* entry least on (priority, g) can be the one popped; a permutation of    *)
(* the columns 0..n-1 is one particular layout, in which ids follow the    *)
(* lexicographic order of the boards with the columns ranked as in the     *)
(* permutation.                                                            *)
(***************************************************************************)
NoLayout == << >>

Layouts(size) ==
    {p \in [1..size -> 0..(size - 1)] :
        \A i \in 1..size : \A j \in 1..size : i # j => p[i] # p[j]}

Identity(size) == [k \in 1..size |-> k - 1]
Reverse(size) == [k \in 1..size |-> size - k]

RankOf_flat(layout, col) == 0

\* rank of a column in a layout; an empty row ranks first
RankOf(layout, col) ==
    IF col = -1 THEN 0 ELSE CHOOSE k \in 1..Len(layout) : layout[k] = col

MinOf(S) == CHOOSE x \in S : \A y \in S : x <= y

Lowest_nodepth(entries) ==
    LET pmin == MinOf({e[1] : e \in entries})
    IN  {e \in entries : e[1] = pmin}

\* entries least on (priority, g)
Lowest(entries) ==
    LET pmin == MinOf({e[1] : e \in entries})
        withp == {e \in entries : e[1] = pmin}
        gmin == MinOf({e[2] : e \in withp})
    IN  {e \in withp : e[2] = gmin}

\* among entries, those whose board ranks first in row r
LeastAtRow(entries, r, layout) ==
    LET rmin == MinOf({RankOf(layout, e[3][r]) : e \in entries})
    IN  {e \in entries : RankOf(layout, e[3][r]) = rmin}

\* among entries, those whose board comes first in the layout, row by row
\* from row r on
RECURSIVE FirstById(_, _, _)
FirstById(entries, r, layout) ==
    IF r > Len(layout)
    THEN entries
    ELSE FirstById(CHOOSE next \in {LeastAtRow(now, r, layout) :
                                        now \in {entries}} : TRUE,
                   r + 1, layout)

\* the entries heappop may return
PopChoices(heap, layout) ==
    UNION {IF layout = NoLayout THEN low ELSE FirstById(low, 1, layout) :
                low \in {Lowest(BagToSet(heap))}}

heappush_twice(heap, entry) == heap (+) SetToBag({entry}) (+) SetToBag({entry})

heappush(heap, entry) == heap (+) SetToBag({entry})
heappop(heap, entry) == heap (-) SetToBag({entry})

(***************************************************************************)
(* the values search() starts from                                         *)
(***************************************************************************)
StartLocals(a, h, size) ==
    LET initial_state == EmptyBoard(size)
    IN  [open_set |->
            IF a = "astar"
            THEN heappush(EmptyBag, <<0, 0, initial_state>>)
            ELSE heappush(EmptyBag,
                          <<heuristic(h, initial_state), 0, initial_state>>),
         g_score |-> IF a = "astar" THEN (initial_state :> 0) ELSE << >>,
         came_from |-> << >>,
         visited |-> {},
         states_generated |-> 1,
         states_explored |-> 0,
         max_depth |-> 0,
         max_f_score |-> 0]

\* path reconstruction: while state in came_from: path.append(state) ...
RECURSIVE WalkBack(_, _)
WalkBack(state, cf) ==
    IF state \in DOMAIN cf
    THEN <<state>> \o WalkBack(cf[state], cf)
    ELSE << >>

Reversed_not(seq) == seq

\* path.reverse()
Reversed(seq) == [i \in 1..Len(seq) |-> seq[Len(seq) + 1 - i]]

ReconstructPath(state, cf, initial_state) ==
    Reversed(WalkBack(state, cf) \o <<initial_state>>)

(***************************************************************************)
(* The loop of search().  A frame is the record of what a call holds: its  *)
(* position (pc, ended), its local variables and its result.               *)
(***************************************************************************)
\* if time.time() - start_time > timeout
timeout_never == FALSE

timeout_exceeded == expired

tentative_g_plus2(current_g) == current_g + 2

\* tentative_g = current_g + 1
tentative_g(current_g) == current_g + 1

GoalResult_dx(a, size, current_state, depth, explored, generated, mxd, mxf, cf) ==
    [algorithm |-> AlgorithmName(a),
     n |-> size,
     solution |-> current_state,
     solution_found |-> TRUE,
     states_explored |-> explored,
     states_generated |-> generated,
     solution_depth |-> explored,
     solution_path |-> ReconstructPath(current_state, cf, EmptyBoard(size)),
     max_f_score |-> mxf,
     max_depth |-> mxd]

\* the result filled in when the popped state is a goal
GoalResult(a, size, current_state, depth, explored, generated, mxd, mxf, cf) ==
    [algorithm |-> AlgorithmName(a),
     n |-> size,
     solution |-> current_state,
     solution_found |-> TRUE,
     states_explored |-> explored,
     states_generated |-> generated,
     solution_depth |-> depth,
     solution_path |-> ReconstructPath(current_state, cf, EmptyBoard(size)),
     max_f_score |-> mxf,
     max_depth |-> mxd]

NotFoundResult_depth(a, size, explored, generated, mxd, mxf) ==
    [SearchResult(AlgorithmName(a), size) EXCEPT
        !.states_explored = explored,
        !.states_generated = generated,
        !.solution_depth = mxd,
        !.max_depth = mxd,
        !.max_f_score = mxf]

\* the result returned on timeout and after the loop: counters only
NotFoundResult(a, size, explored, generated, mxd, mxf) ==
    [SearchResult(AlgorithmName(a), size) EXCEPT
        !.states_explored = explored,
        !.states_generated = generated,
        !.max_depth = mxd,
        !.max_f_score = mxf]

\* A*: the body of the for loop over get_successors(), for one successor;
\* loc holds open_set, g_score, came_from and states_generated
AStarRelax(successor, current_state, current_g, h, loc) ==
    LET tg == tentative_g(current_g)
        generated == loc.states_generated + 1
    IN  IF \/ successor \notin DOMAIN loc.g_score
           \/ tg < loc.g_score[successor]
        THEN [open_set |-> heappush(loc.open_set,
                                <<tg + heuristic(h, successor), tg,
                                  successor>>),
              g_score |-> (successor :> tg) @@ loc.g_score,
              came_from |-> (successor :> current_state) @@ loc.came_from,
              states_generated |-> generated]
        ELSE [loc EXCEPT !.states_generated = generated]

\* A*: the for loop over get_successors(), from its i-th element on; what
\* an iteration is handed is a value, hence bound as the element of a set
RECURSIVE AStarExpand(_, _, _, _, _, _)
AStarExpand(successors, i, current_state, current_g, h, loc) ==
    IF i > Len(successors)
    THEN loc
    ELSE AStarExpand(successors, i + 1, current_state, current_g, h,
            CHOOSE next \in {AStarRelax(successor, current_state,
                                current_g, h, now) :
                             successor \in {successors[i]},
                             now \in {loc}} : TRUE)

\* A*: the body of the while loop below the timeout test, entry being the
\* tuple heappop returns
AStarVisit(fr, entry, h, size) ==
    LET current_f == entry[1]
        current_g == entry[2]
        current_state == entry[3]
        popped == heappop(fr.open_set, entry)
        explored == fr.states_explored + 1
        mxd == Max(fr.max_depth, current_g)
        mxf == Max(fr.max_f_score, current_f)
    IN  IF is_goal(current_state)
        THEN [fr EXCEPT
                !.open_set = popped,
                !.states_explored = explored,
                !.max_depth = mxd,
                !.max_f_score = mxf,
                !.result = GoalResult("astar", size, current_state, current_g,
                                explored, fr.states_generated, mxd, mxf,
                                fr.came_from),
                !.pc = "done",
                !.ended = "goal"]
        ELSE CHOOSE after \in
                {[fr EXCEPT
                    !.open_set = loc.open_set,
                    !.g_score = loc.g_score,
                    !.came_from = loc.came_from,
                    !.states_generated = loc.states_generated,
                    !.states_explored = explored,
                    !.max_depth = mxd,
                    !.max_f_score = mxf] :
                 loc \in {AStarExpand(successors, 1, current_state,
                            current_g, h,
                            [open_set |-> popped,
                             g_score |-> fr.g_score,
                             came_from |-> fr.came_from,
                             states_generated |-> fr.states_generated]) :
                          successors \in {get_successors(current_state)}}} :
                TRUE

\* greedy: the body of the for loop over get_successors(), for one
\* successor; loc holds open_set, came_from and states_generated
GreedyPush(successor, current_state, current_depth, h, seen, loc) ==
    LET generated == loc.states_generated + 1
    IN  IF successor \notin seen
        THEN [open_set |-> heappush(loc.open_set,
                                <<heuristic(h, successor), current_depth + 1,
                                  successor>>),
              came_from |-> (successor :> current_state) @@ loc.came_from,
              states_generated |-> generated]
        ELSE [loc EXCEPT !.states_generated = generated]

\* greedy: the for loop over get_successors(), from its i-th element on
RECURSIVE GreedyExpand(_, _, _, _, _, _, _)
GreedyExpand(successors, i, current_state, current_depth, h, seen, loc) ==
    IF i > Len(successors)
    THEN loc
    ELSE GreedyExpand(successors, i + 1, current_state, current_depth, h,
            seen,
            CHOOSE next \in {GreedyPush(successor, current_state,
                                current_depth, h, seen, now) :
                             successor \in {successors[i]},
                             now \in {loc}} : TRUE)

MarkVisited_not(seen, current_state) == seen

\* visited.add(current_state)
MarkVisited(seen, current_state) == seen \cup {current_state}

\* greedy: the body of the while loop below the timeout test (GreedySearch
\* has no max_f_score: the result keeps the 0 of SearchResult.__init__)
GreedyVisit(fr, entry, h, size) ==
    LET current_depth == entry[2]
        current_state == entry[3]
        popped == heappop(fr.open_set, entry)
        explored == fr.states_explored + 1
        mxd == Max(fr.max_depth, current_depth)
        seen == MarkVisited(fr.visited, current_state)
    IN  IF current_state \in fr.visited
        THEN [fr EXCEPT !.open_set = popped]
        ELSE IF is_goal(current_state)
        THEN [fr EXCEPT
                !.open_set = popped,
                !.visited = seen,
                !.states_explored = explored,
                !.max_depth = mxd,
                !.result = GoalResult("greedy", size, current_state,
                                current_depth, explored, fr.states_generated,
                                mxd, 0, fr.came_from),
                !.pc = "done",
                !.ended = "goal"]
        ELSE CHOOSE after \in
                {[fr EXCEPT
                    !.open_set = loc.open_set,
                    !.came_from = loc.came_from,
                    !.states_generated = loc.states_generated,
                    !.visited = seen,
                    !.states_explored = explored,
                    !.max_depth = mxd] :
                 loc \in {GreedyExpand(successors, 1, current_state,
                            current_depth, h, seen,
                            [open_set |-> popped,
                             came_from |-> fr.came_from,
                             states_generated |-> fr.states_generated]) :
                          successors \in {get_successors(current_state)}}} :
                TRUE

\* the timeout branch at the head of an iteration
TimeoutReturn(fr, a, size) ==
    [fr EXCEPT
        !.result = NotFoundResult(a, size, fr.states_explored,
                        fr.states_generated, fr.max_depth, fr.max_f_score),
        !.pc = "done",
        !.ended = "timeout"]

ExhaustedReturn_stay(fr, a, size) == fr

\* `while open_set` is false: the statements after the loop
ExhaustedReturn(fr, a, size) ==
    [fr EXCEPT
        !.result = NotFoundResult(a, size, fr.states_explored,
                        fr.states_generated, fr.max_depth, fr.max_f_score),
        !.pc = "done",
        !.ended = "exhausted"]

\* the frame of the running call
Frame ==
    [pc |-> pc,
     ended |-> ended,
     open_set |-> open_set,
     g_score |-> g_score,
     came_from |-> came_from,
     visited |-> visited,
     states_generated |-> states_generated,
     states_explored |-> states_explored,
     max_depth |-> max_depth,
     max_f_score |-> max_f_score,
     result |-> result]

\* the running call goes on as frame fr
Become(fr) ==
    /\ pc' = fr.pc
    /\ ended' = fr.ended
    /\ open_set' = fr.open_set
    /\ g_score' = fr.g_score
    /\ came_from' = fr.came_from
    /\ visited' = fr.visited
    /\ states_generated' = fr.states_generated
    /\ states_explored' = fr.states_explored
    /\ max_depth' = fr.max_depth
    /\ max_f_score' = fr.max_f_score
    /\ result' = fr.result

(***************************************************************************)
(* search() followed one loop iteration at a time                          *)
(***************************************************************************)
AStarIteration ==
    /\ pc = "loop"
    /\ alg = "astar"
    /\ open_set # EmptyBag
    /\ ~timeout_exceeded
    /\ \E entry \in PopChoices(open_set, id_order) :
            \E after \in {AStarVisit(Frame, entry, heur, n)} : Become(after)
    /\ UNCHANGED <<params, id_order, expired, run, first, pure>>

GreedyIteration ==
    /\ pc = "loop"
    /\ alg = "greedy"
    /\ open_set # EmptyBag
    /\ ~timeout_exceeded
    /\ \E entry \in PopChoices(open_set, id_order) :
            \E after \in {GreedyVisit(Frame, entry, heur, n)} : Become(after)
    /\ UNCHANGED <<params, id_order, expired, run, first, pure>>

Timeout ==
    /\ pc = "loop"
    /\ open_set # EmptyBag
    /\ timeout_exceeded
    /\ Become(TimeoutReturn(Frame, alg, n))
    /\ UNCHANGED <<params, id_order, expired, run, first, pure>>

Exhausted ==
    /\ pc = "loop"
    /\ open_set = EmptyBag
    /\ Become(ExhaustedReturn(Frame, alg, n))
    /\ UNCHANGED <<params, id_order, expired, run, first, pure>>

\* wall-clock time passes the timeout while the search is running
Tick ==
    /\ pc = "loop"
    /\ ~expired
    /\ expired' = TRUE
    /\ UNCHANGED <<params, id_order, pc, ended, run, first, locals, result,
                   pure>>

(***************************************************************************)
(* search() as one call, the timeout never reached, under an id() layout   *)
(***************************************************************************)
\* one turn of the while loop; a frame that has returned stays as it is
Turn(fr, a, h, size, layout) ==
    IF fr.pc = "done"
    THEN fr
    ELSE IF fr.open_set = EmptyBag
    THEN ExhaustedReturn(fr, a, size)
    ELSE LET entry == CHOOSE e \in PopChoices(fr.open_set, layout) : TRUE
         IN  IF a = "astar"
             THEN AStarVisit(fr, entry, h, size)
             ELSE GreedyVisit(fr, entry, h, size)

\* k turns of the loop, halving k
RECURSIVE Turns(_, _, _, _, _, _)
Turns(fr, k, a, h, size, layout) ==
    IF k = 0 \/ fr.pc = "done"
    THEN fr
    ELSE IF k = 1
    THEN Turn(fr, a, h, size, layout)
    ELSE Turns(Turns(fr, k \div 2, a, h, size, layout), k - (k \div 2),
               a, h, size, layout)

\* the loop run until a return statement is reached
RECURSIVE RunLoop(_, _, _, _, _, _)
RunLoop(fr, k, a, h, size, layout) ==
    LET after == Turns(fr, k, a, h, size, layout)
    IN  IF after.pc = "done"
        THEN after
        ELSE RunLoop(after, 2 * k, a, h, size, layout)

CallSearch ==
    /\ pc = "loop"
    /\ Become(RunLoop(Frame, 1, alg, heur, n, id_order))
    /\ UNCHANGED <<params, id_order, expired, run, first, pure>>

(***************************************************************************)
(* the caller: a search from the empty board, and the same search again    *)
(***************************************************************************)
Sizes == 1..Max(MaxArbN, Max(MaxN, MaxDetN))

\* the id() orders explored for a board size
IdOrdersFor(size) ==
    (IF size <= MaxArbN THEN {NoLayout} ELSE {})
    \cup (IF size <= MaxN
          THEN Layouts(size)
          ELSE {Identity(size), Reverse(size)})

StartSearch(a, h, size) ==
    LET loc == StartLocals(a, h, size)
    IN  /\ open_set = loc.open_set
        /\ g_score = loc.g_score
        /\ came_from = loc.came_from
        /\ visited = loc.visited
        /\ states_generated = loc.states_generated
        /\ states_explored = loc.states_explored
        /\ max_depth = loc.max_depth
        /\ max_f_score = loc.max_f_score
        /\ result = SearchResult(AlgorithmName(a), size)
        /\ pc = "loop"
        /\ expired = FALSE
        /\ ended = "running"

Init ==
    /\ n \in Sizes
    /\ alg \in Algorithms
    /\ heur \in Heuristics
    /\ id_order \in IdOrdersFor(n)
    /\ run = 1
    /\ first = None
    /\ StartSearch(alg, heur, n)
    /\ board = None
    /\ succs = << >>
    /\ other = None
    /\ lt = FALSE
    /\ ret = None

\* what the caller compares between two calls
Outcome(res) ==
    [solution_found |-> res.solution_found,
     solution_depth |-> res.solution_depth,
     states_explored |-> res.states_explored,
     states_generated |-> res.states_generated]

\* the caller runs the same algorithm, heuristic and n a second time; the
\* objects of the second call get their own id() values
Restart ==
    /\ pc = "done"
    /\ run = 1
    /\ run' = 2
    /\ first' = Outcome(result)
    /\ id_order' \in IdOrdersFor(n)
    /\ LET loc == StartLocals(alg, heur, n)
       IN  /\ open_set' = loc.open_set
           /\ g_score' = loc.g_score
           /\ came_from' = loc.came_from
           /\ visited' = loc.visited
           /\ states_generated' = loc.states_generated
           /\ states_explored' = loc.states_explored
           /\ max_depth' = loc.max_depth
           /\ max_f_score' = loc.max_f_score
    /\ result' = SearchResult(AlgorithmName(alg), n)
    /\ pc' = "loop"
    /\ expired' = FALSE
    /\ ended' = "running"
    /\ UNCHANGED <<params, pure>>

\* two calls in a row, the timeout never reached
Next ==
    \/ AStarIteration
    \/ GreedyIteration
    \/ Exhausted
    \/ Restart

Spec == Init /\ [][Next]_vars

\* one call that the timeout never stops.  search() is sequential code that
\* nothing suspends: whenever the loop can take its next step, it does.
NextOnce ==
    \/ AStarIteration
    \/ GreedyIteration
    \/ Exhausted

\* the calls followed to the end: boards up to MaxN, under any order of the
\* tie-breaks or under one of the two plain layouts
InitOnce ==
    /\ Init
    /\ n <= MaxN
    /\ id_order \in {NoLayout, Identity(n), Reverse(n)}

SpecOnce == InitOnce /\ [][NextOnce]_vars /\ WF_vars(NextOnce)

\* one call, during which the timeout may be reached at any moment
NextTimeout ==
    \/ AStarIteration
    \/ GreedyIteration
    \/ Timeout
    \/ Exhausted
    \/ Tick

SpecTimeout == Init /\ [][NextTimeout]_vars

(***************************************************************************)
(* whole calls for every board size up to that of the end-to-end scenario  *)
(* (n = 8), under the ascending and the descending id() layout             *)
(***************************************************************************)
InitE2E ==
    /\ n \in 1..E2E_N
    /\ alg \in Algorithms
    /\ heur \in Heuristics
    /\ id_order \in {Identity(n), Reverse(n)}
    /\ run = 1
    /\ first = None
    /\ StartSearch(alg, heur, n)
    /\ board = None
    /\ succs = << >>
    /\ other = None
    /\ lt = FALSE
    /\ ret = None

NextE2E == CallSearch

SpecE2E == InitE2E /\ [][NextE2E]_vars

(***************************************************************************)
(* the board functions called directly, on any positions list over         *)
(* -1..n-1, filled in row order or not, valid or not                       *)
(***************************************************************************)
Boards(size) == [1..size -> (-1)..(size - 1)]

AllBoards == UNION {Boards(size) : size \in 1..MaxBoardN}

InitBoards ==
    /\ board \in AllBoards
    /\ succs = << >>
    /\ other = None
    /\ lt = FALSE
    /\ ret = None
    /\ n = Len(board)
    /\ alg = "astar"
    /\ heur = "attacking_pairs"
    /\ id_order = NoLayout
    /\ run = 1
    /\ first = None
    /\ pc = "call"
    /\ expired = FALSE
    /\ ended = "running"
    /\ open_set = EmptyBag
    /\ g_score = << >>
    /\ came_from = << >>
    /\ visited = {}
    /\ states_generated = 0
    /\ states_explored = 0
    /\ max_depth = 0
    /\ max_f_score = 0
    /\ result = None

\* board.get_successors()
CallGetSuccessors ==
    /\ pc = "call"
    /\ succs' = get_successors(board)
    /\ pc' = "returned"
    /\ UNCHANGED <<params, id_order, expired, ended, run, first, locals,
                   result, board, other, lt, ret>>

\* board.is_valid(), board.count_conflicts(), board.is_goal() and
\* validate_solution(board.positions)
CallPredicates ==
    /\ pc = "call"
    /\ ret' = [is_valid |-> is_valid(board),
               count_conflicts |-> count_conflicts(board),
               is_goal |-> is_goal(board),
               validate_solution |-> validate_solution(board)]
    /\ pc' = "judged"
    /\ UNCHANGED <<params, id_order, expired, ended, run, first, locals,
                   result, board, succs, other, lt>>

NextBoards ==
    \/ CallGetSuccessors
    \/ CallPredicates

SpecBoards == InitBoards /\ [][NextBoards]_vars

(***************************************************************************)
(* __lt__ called directly on two states of one size, the larger sizes with *)
(* two-digit columns; the first two rows take every value, the other rows  *)
(* are empty                                                               *)
(***************************************************************************)
LtSizes == (MaxLtN - 1)..MaxLtN

LtBoards(size) ==
    {[r \in 1..size |-> IF r = 1 THEN c[1] ELSE IF r = 2 THEN c[2] ELSE -1] :
        c \in ((-1)..(size - 1)) \X ((-1)..(size - 1))}

InitLt ==
    /\ n \in LtSizes
    /\ board \in LtBoards(n)
    /\ other \in LtBoards(n)
    /\ lt = FALSE
    /\ ret = None
    /\ succs = << >>
    /\ alg = "astar"
    /\ heur = "attacking_pairs"
    /\ id_order = NoLayout
    /\ run = 1
    /\ first = None
    /\ pc = "call"
    /\ expired = FALSE
    /\ ended = "running"
    /\ open_set = EmptyBag
    /\ g_score = << >>
    /\ came_from = << >>
    /\ visited = {}
    /\ states_generated = 0
    /\ states_explored = 0
    /\ max_depth = 0
    /\ max_f_score = 0
    /\ result = None

\* board < other
CallLt ==
    /\ pc = "call"
    /\ lt' = __lt__(board, other)
    /\ pc' = "returned"
    /\ UNCHANGED <<params, id_order, expired, ended, run, first, locals,
                   result, board, succs, other, ret>>

NextLt == CallLt

SpecLt == InitLt /\ [][NextLt]_vars

(***************************************************************************)
(* the callers of search(): main() of main.py, which tests the size it is  *)
(* given, and run_experiments(), which does not.  Both search with         *)
(* attacking_pairs_heuristic.  [-1] * n is the empty list for n <= 0.      *)
(***************************************************************************)
CallerSizes == (-MaxNonPositive)..MaxN

\* the frame of a call of search() at the head of its first iteration
StartFrame(a, h, size) ==
    LET loc == StartLocals(a, h, size)
    IN  [pc |-> "loop",
         ended |-> "running",
         open_set |-> loc.open_set,
         g_score |-> loc.g_score,
         came_from |-> loc.came_from,
         visited |-> loc.visited,
         states_generated |-> loc.states_generated,
         states_explored |-> loc.states_explored,
         max_depth |-> loc.max_depth,
         max_f_score |-> loc.max_f_score,
         result |-> SearchResult(AlgorithmName(a), size)]

InitCallers ==
    /\ n \in CallerSizes
    /\ alg \in Algorithms
    /\ heur = "attacking_pairs"
    /\ id_order \in IdOrdersFor(n)
    /\ run = 1
    /\ first = None
    /\ pc = "entry"
    /\ expired = FALSE
    /\ ended = "running"
    /\ open_set = EmptyBag
    /\ g_score = << >>
    /\ came_from = << >>
    /\ visited = {}
    /\ states_generated = 0
    /\ states_explored = 0
    /\ max_depth = 0
    /\ max_f_score = 0
    /\ result = None
    /\ board = None
    /\ succs = << >>
    /\ other = None
    /\ lt = FALSE
    /\ ret = None

\* main(): if args.n <= 0: print("Erro: ..."); return
MainRejects ==
    /\ pc = "entry"
    /\ n <= 0
    /\ pc' = "rejected"
    /\ ended' = "rejected"
    /\ UNCHANGED <<params, id_order, expired, run, first, locals, result,
                   pure>>

\* main(): solve_n_queens(args.n, algorithms) up to the call of search()
MainSolves ==
    /\ pc = "entry"
    /\ ~(n <= 0)
    /\ Become(StartFrame(alg, heur, n))
    /\ UNCHANGED <<params, id_order, expired, run, first, pure>>

\* run_experiments(n_values): for n in n_values, up to the call of search()
RunExperiments ==
    /\ pc = "entry"
    /\ Become(StartFrame(alg, heur, n))
    /\ UNCHANGED <<params, id_order, expired, run, first, pure>>

NextCallers ==
    \/ MainRejects
    \/ MainSolves
    \/ RunExperiments
    \/ AStarIteration
    \/ GreedyIteration
    \/ Exhausted

SpecCallers == InitCallers /\ [][NextCallers]_vars

(***************************************************************************)
(* main.py: solve_n_queens(n, ['astar', 'greedy'])                         *)
(***************************************************************************)
SolveSizes == 1..MaxN

\* the id() orders followed through the two searches of one call
SolveIdOrders(size) ==
    (IF size <= MaxArbN THEN {NoLayout} ELSE {})
    \cup {Identity(size), Reverse(size)}

\* boards above this size are not printed
PrintLimit == 15

\* astar = AStarSearch(attacking_pairs_heuristic), at the head of
\* astar.search(initial_state); results is still the empty dictionary
InitSolve ==
    /\ n \in SolveSizes
    /\ alg = "astar"
    /\ heur = "attacking_pairs"
    /\ id_order \in SolveIdOrders(n)
    /\ run = 1
    /\ first = None
    /\ StartSearch("astar", "attacking_pairs", n)
    /\ board = None
    /\ succs = << >>
    /\ other = None
    /\ lt = FALSE
    /\ ret = None

\* results['A*'] = result_astar, whatever its outcome, then
\* greedy = GreedySearch(attacking_pairs_heuristic) and greedy.search() begins
\* with a clock of its own; first holds results['A*']
SolveGreedy ==
    /\ pc = "done"
    /\ run = 1
    /\ alg = "astar"
    /\ first' = result
    /\ run' = 2
    /\ alg' = "greedy"
    /\ id_order' \in SolveIdOrders(n)
    /\ expired' = FALSE
    /\ Become(StartFrame("greedy", heur, n))
    /\ UNCHANGED <<n, heur, pure>>

\* if result_greedy.solution_found: ...
\*     if n <= 15 and (not results.get('A*') or
\*             results['A*'].solution.positions != ...):
\* results.get('A*') is the SearchResult stored above, an object without
\* __bool__ or __len__ and so true: the right operand of "or" is evaluated,
\* and reading .positions of a solution that is None raises AttributeError
ComparisonRaises(result_astar, result_greedy, size) ==
    /\ result_greedy.solution_found
    /\ size <= PrintLimit
    /\ result_astar.solution = None

\* the greedy block ends and solve_n_queens returns {n: results}
SolveReturns ==
    /\ pc = "done"
    /\ run = 2
    /\ ~ComparisonRaises(first, result, n)
    /\ pc' = "solved"
    /\ UNCHANGED <<params, id_order, expired, ended, run, first, locals,
                   result, pure>>

\* the greedy block raises AttributeError out of solve_n_queens
SolveRaises ==
    /\ pc = "done"
    /\ run = 2
    /\ ComparisonRaises(first, result, n)
    /\ pc' = "raised"
    /\ UNCHANGED <<params, id_order, expired, ended, run, first, locals,
                   result, pure>>

\* each of the two searches may reach its timeout at any moment
NextSolve ==
    \/ AStarIteration
    \/ GreedyIteration
    \/ Timeout
    \/ Exhausted
    \/ Tick
    \/ SolveGreedy
    \/ SolveReturns
    \/ SolveRaises

SpecSolve == InitSolve /\ [][NextSolve]_vars

(***************************************************************************)
(* Properties                                                              *)
(***************************************************************************)
\* the N-Queens validity law on a row-assignment sequence of a board of
\* the given size
QueensLaw(seq, size) ==
    /\ Len(seq) = size
    /\ \A r \in 1..size : seq[r] \in 0..(size - 1)
    /\ \A i \in 1..size : \A j \in 1..size :
          i # j => /\ seq[i] # seq[j]
                   /\ Abs(i - j) # Abs(seq[i] - seq[j])

\* C1: every result with solution_found = true, of A* or greedy, with either
\* heuristic, carries a solution of n entries in 0..n-1, no two of them equal
\* and no two on a common diagonal.
C1_SolutionObeysQueensLaw ==
    result.solution_found => QueensLaw(result.solution, n)

C1_Witness ==
    /\ pc = "done"
    /\ result.solution_found
    /\ n >= 4
    /\ alg = "greedy"
    /\ heur = "remaining_queens"

\* C2: for n = 2 and n = 3, with the timeout never reached, A* and greedy
\* both leave the loop because the frontier is empty and return
\* solution_found = false.
C2_NoSolutionByExhaustion ==
    (pc = "done" /\ n \in {2, 3}) =>
        /\ ended = "exhausted"
        /\ open_set = EmptyBag
        /\ result.solution_found = FALSE

C2_Witness ==
    /\ pc = "done"
    /\ n = 3
    /\ ended = "exhausted"
    /\ states_explored > 1

\* C3: for n = 1, A* and greedy both return solution_found = true with the
\* solution [0] and solution_depth = 1.
C3_OneQueen ==
    (pc = "done" /\ n = 1) =>
        /\ result.solution_found
        /\ result.solution = <<0>>
        /\ result.solution_depth = 1

C3_Witness ==
    /\ pc = "done"
    /\ n = 1
    /\ ended = "goal"

\* C4: for n = 8 with attacking_pairs_heuristic and the timeout never
\* reached, A* returns solution_found = true, solution_depth = 8, a valid
\* 8-queens sequence of length 8, and states_explored < 8! = 40320.
C4_EightQueens ==
    (pc = "done" /\ n = 8 /\ alg = "astar" /\ heur = "attacking_pairs") =>
        /\ result.solution_found
        /\ result.solution_depth = 8
        /\ Len(result.solution) = 8
        /\ validate_solution(result.solution)
        /\ QueensLaw(result.solution, 8)
        /\ result.states_explored < 40320

C4_Witness ==
    /\ pc = "done"
    /\ n = 8
    /\ alg = "astar"
    /\ heur = "attacking_pairs"
    /\ ended = "goal"

\* C5: the timeout is tested at the head of every iteration, before the pop:
\* once the elapsed time exceeds the timeout, no further entry is popped or
\* expanded (frontier and counters stay as they are), and the search returns
\* solution_found = false with states_explored, states_generated and
\* max_depth as accumulated up to that point.
C5_TimeoutStopsBeforePop ==
    [][(pc = "loop" /\ expired) =>
          /\ open_set' = open_set
          /\ states_explored' = states_explored
          /\ states_generated' = states_generated
          /\ max_depth' = max_depth
          /\ pc' = "done" =>
                /\ result'.solution_found = FALSE
                /\ result'.states_explored = states_explored
                /\ result'.states_generated = states_generated
                /\ result'.max_depth = max_depth]_vars

C5_Witness ==
    /\ pc = "done"
    /\ ended = "timeout"
    /\ expired
    /\ states_explored >= 2
    /\ open_set # EmptyBag
    /\ result.states_explored = states_explored

\* C6: a search that ends by frontier exhaustion or by timeout returns the
\* same "not found" shape: solution_found = false, no solution (None),
\* solution_depth = 0 and an empty solution_path.
C6_NotFoundShape ==
    ended \in {"exhausted", "timeout"} =>
        /\ result.solution_found = FALSE
        /\ result.solution = None
        /\ result.solution_depth = 0
        /\ result.solution_path = << >>

C6_Witness ==
    /\ ended = "timeout"
    /\ max_depth >= 2
    /\ result.max_depth = max_depth

\* C7: two calls of the same algorithm with the same heuristic and n, the
\* timeout reached in neither, return the same solution_found and the same
\* solution_depth, whatever the id() tie-breaks of the two calls.
C7_SameOutcomeTwice ==
    (run = 2 /\ pc = "done") =>
        /\ result.solution_found = first.solution_found
        /\ result.solution_depth = first.solution_depth

\* the two calls popped in different orders and still agree
C7_Witness ==
    /\ run = 2
    /\ pc = "done"
    /\ result.solution_found
    /\ result.states_explored # first.states_explored

\* C8: two calls of the same algorithm with the same heuristic and n, the
\* timeout reached in neither, return the same states_explored and
\* states_generated.
C8_SameCountsTwice ==
    (run = 2 /\ pc = "done") =>
        /\ result.states_explored = first.states_explored
        /\ result.states_generated = first.states_generated

\* least number of get_successors steps from a board to a goal, by exhaustive
\* search; -1 when no goal can be reached
RECURSIVE MinPlacements(_)
MinPlacements(positions) ==
    IF is_goal(positions)
    THEN 0
    ELSE LET successors == get_successors(positions)
             below == {MinPlacements(successors[i]) :
                            i \in 1..Len(successors)} \ {-1}
         IN  IF below = {} THEN -1 ELSE 1 + MinOf(below)

\* C9: A* with remaining_queens_heuristic is cost-optimal for n = 4 and
\* n = 5: with the timeout never reached, the returned solution_depth is the
\* least number of placements on any get_successors path from the empty
\* board to a goal.
C9_AStarCostOptimal ==
    (/\ pc = "done"
     /\ alg = "astar"
     /\ heur = "remaining_queens"
     /\ n \in {4, 5}) =>
        /\ result.solution_found
        /\ result.solution_depth = MinPlacements(EmptyBoard(n))

C9_Witness ==
    /\ pc = "done"
    /\ alg = "astar"
    /\ heur = "remaining_queens"
    /\ n = 5
    /\ ended = "goal"

\* no two placed queens of a positions list share a column or a diagonal
NoTwoAttack(positions) ==
    \A r1 \in 1..Len(positions) : \A r2 \in 1..Len(positions) :
        (r1 # r2 /\ positions[r1] # -1 /\ positions[r2] # -1) =>
            /\ positions[r1] # positions[r2]
            /\ r1 - r2 # positions[r1] - positions[r2]
            /\ r1 - r2 # positions[r2] - positions[r1]

\* C10: for every board, partial or full, every state get_successors()
\* returns has no two placed queens on a common column or diagonal.
C10_SuccessorsAreValid ==
    pc = "returned" =>
        \A i \in 1..Len(succs) : is_valid(succs[i]) /\ NoTwoAttack(succs[i])

C10_Witness ==
    /\ pc = "returned"
    /\ Len(succs) >= 2
    /\ count_queens(board) >= 2
    /\ board[1] = -1

\* C11: a board size n <= 0 is rejected before any search: no search loop is
\* run for it and the caller gets an error, never a SearchResult.
C11_NonPositiveRejected ==
    n <= 0 => /\ pc \in {"entry", "rejected"}
              /\ open_set = EmptyBag
              /\ states_explored = 0

\* the states of a successor list
SuccessorSet(positions) ==
    {get_successors(positions)[i] : i \in 1..Len(get_successors(positions))}

\* C12: for every result with solution_found = true, of A* or greedy,
\* solution_path runs from the root to the goal: its first element is the
\* empty board, its last element is the solution, it has solution_depth + 1
\* elements, and each element is among the get_successors() of the one
\* before it.
C12_PathRootToGoal ==
    result.solution_found =>
        LET path == result.solution_path
        IN  /\ Len(path) = result.solution_depth + 1
            /\ path[1] = EmptyBoard(n)
            /\ path[Len(path)] = result.solution
            /\ \A i \in 1..(Len(path) - 1) :
                    path[i + 1] \in SuccessorSet(path[i])

C12_Witness ==
    /\ pc = "done"
    /\ result.solution_found
    /\ Len(result.solution_path) >= 5
    /\ alg = "astar"
    /\ heur = "attacking_pairs"

\* C13: for every n >= 1 and either heuristic, a search of A* or greedy from
\* the empty board that the timeout never stops terminates: eventually a
\* goal has been popped or the frontier is empty, and a SearchResult is
\* returned.
C13_SearchTerminates ==
    <>(/\ pc = "done"
       /\ ended \in {"goal", "exhausted"}
       /\ ended = "exhausted" => open_set = EmptyBag
       /\ ended = "goal" => is_goal(result.solution)
       /\ result.states_explored = states_explored)

C13_Witness ==
    /\ pc = "done"
    /\ ended = "exhausted"
    /\ open_set = EmptyBag
    /\ n = 3
    /\ alg = "greedy"
    /\ states_explored = 6

\* C14: in A*, every entry placed in the frontier, the entry of the initial
\* state included, carries f = g + h(state) for the configured heuristic h
\* (for remaining_queens_heuristic, h of the empty board is n).
C14_FrontierKeyIsGPlusH ==
    (alg = "astar" /\ pc \in {"loop", "done"}) =>
        \A entry \in BagToSet(open_set) :
            entry[1] = entry[2] + heuristic(heur, entry[3])

\* the frontier with the depth of every entry blanked
WithoutDepth(heap) == SetToBag({<<e[1], 0, e[3]>> : e \in BagToSet(heap)})

\* C15: in greedy search the entry popped next is decided by the heuristic
\* value and the tie-break only: the states that may be popped are the same
\* whatever depths the frontier entries carry.
C15_DepthNeverRanks ==
    (alg = "greedy" /\ pc = "loop" /\ open_set # EmptyBag) =>
        {e[3] : e \in PopChoices(open_set, id_order)}
            = {e[3] : e \in PopChoices(WithoutDepth(open_set), id_order)}

\* lexicographic order of two row-assignment sequences of one length,
\* compared as integers (-1, the empty row, is below every column)
IntLexLess(a, b) ==
    \E k \in 1..Len(a) :
        /\ \A j \in 1..(k - 1) : a[j] = b[j]
        /\ a[k] < b[k]

\* C16: for every pair of states of one size, two-digit columns (n >= 11)
\* included, __lt__ is the lexicographic order of the row-assignment
\* sequences compared as sequences of integers, -1 below every column.
C16_LtIsIntegerLexOrder ==
    pc = "returned" => (lt = IntLexLess(board, other))

\* the tie-break of an entry under the layout of the run: the ranks of the
\* rows of its board, which order the ids from the first row on
TieBreak(entry) == [r \in 1..Len(entry[3]) |-> RankOf(id_order, entry[3][r])]

\* C17: in A* and in greedy, at every moment no two entries of the frontier
\* agree on all of (priority, g or depth, tie-break): every entry is there
\* once and holds a state of its own, so that the tie-breaks differ and the
\* heap never has to compare two states to pick the entry it pops.
C17_FrontierKeysDistinct ==
    pc = "loop" =>
        /\ Cardinality(BagToSet(open_set)) = BagCardinality(open_set)
        /\ Cardinality({e[3] : e \in BagToSet(open_set)})
                = BagCardinality(open_set)
        /\ id_order # NoLayout =>
                /\ Cardinality({<<e[1], e[2], TieBreak(e)>> :
                                    e \in BagToSet(open_set)})
                        = BagCardinality(open_set)
                /\ open_set # EmptyBag =>
                      Cardinality(PopChoices(open_set, id_order)) = 1

\* two entries tie on (priority, g or depth) and the tie-break tells them
\* apart
C17_Witness ==
    /\ pc = "loop"
    /\ id_order # NoLayout
    /\ \E e \in BagToSet(open_set) : \E f \in BagToSet(open_set) :
            /\ e # f
            /\ e[1] = f[1]
            /\ e[2] = f[2]
            /\ e \in Lowest(BagToSet(open_set))

\* the entries a step took out of the frontier, and those it put in
Taken ==
    {e \in BagToSet(open_set) : CopiesIn(e, open_set') < CopiesIn(e, open_set)}
Put ==
    {e \in BagToSet(open_set') : CopiesIn(e, open_set') > CopiesIn(e, open_set)}

\* C18: greedy search never explores a state twice.  A popped state that is
\* in visited is dropped with states_explored left as it is and nothing
\* pushed; any other popped state is counted and joins visited; no pushed
\* successor is in visited; and states_explored is the size of visited at
\* every point.
C18_GreedyExploresOnce ==
    [][alg = "greedy" =>
        /\ states_explored = Cardinality(visited)
        /\ states_explored' = Cardinality(visited')
        /\ pc = "loop" =>
              /\ \A e \in Taken :
                    IF e[3] \in visited
                    THEN /\ states_explored' = states_explored
                         /\ visited' = visited
                         /\ Put = {}
                    ELSE /\ states_explored' = states_explored + 1
                         /\ visited' = visited \cup {e[3]}
              /\ \A e \in Put : e[3] \notin visited']_vars

C18_Witness ==
    /\ alg = "greedy"
    /\ pc = "done"
    /\ ended = "goal"
    /\ states_explored >= 5
    /\ Cardinality(visited) = states_explored
    /\ open_set # EmptyBag

\* k filled rows followed by empty rows only
PrefixFilled(positions) ==
    \E k \in 0..Len(positions) :
        /\ \A r \in 1..k : positions[r] \in 0..(Len(positions) - 1)
        /\ \A r \in (k + 1)..Len(positions) : positions[r] = -1

\* child is parent with its first empty row filled and nothing else changed
FillsNextRow(parent, child) ==
    LET k == count_queens(parent)
    IN  /\ k < Len(parent)
        /\ Len(child) = Len(parent)
        /\ parent[k + 1] = -1
        /\ child[k + 1] \in 0..(Len(parent) - 1)
        /\ \A r \in 1..Len(parent) : r # k + 1 => child[r] = parent[r]

\* the states held by the structures of a search
HeldStates ==
    {e[3] : e \in BagToSet(open_set)} \cup DOMAIN g_score
        \cup DOMAIN came_from \cup {came_from[s] : s \in DOMAIN came_from}
        \cup visited

\* C19: every state that repeated get_successors() calls reach from the
\* empty board, hence every state in the frontier, g_score, came_from or
\* visited of A* or greedy, is k filled rows 0..k-1 followed by n-k empty
\* rows, and every successor fills exactly row k of its parent and leaves
\* the other rows as they are.
C19_RowsFilledInOrder ==
    pc \in {"loop", "done"} =>
        /\ \A s \in HeldStates : PrefixFilled(s)
        /\ \A s \in DOMAIN came_from : FillsNextRow(came_from[s], s)
        /\ \A e \in BagToSet(open_set) :
              \A i \in 1..Len(get_successors(e[3])) :
                  /\ FillsNextRow(e[3], get_successors(e[3])[i])
                  /\ PrefixFilled(get_successors(e[3])[i])

C19_Witness ==
    /\ pc = "loop"
    /\ n >= 4
    /\ Cardinality(DOMAIN came_from) >= 8
    /\ \E e \in BagToSet(open_set) :
            /\ count_queens(e[3]) \in 2..(n - 1)
            /\ Len(get_successors(e[3])) >= 1

\* rows of a positions list that hold no queen
EmptyRows(positions) == {r \in 1..Len(positions) : positions[r] = -1}

\* columns whose placement in row r gives a state that is_valid() accepts
ValidColumns(positions, r) ==
    {c \in 0..(Len(positions) - 1) : is_valid([positions EXCEPT ![r] = c])}

\* C20: for a state whose first empty row is r, get_successors() returns
\* exactly the states that put a queen in row r at a column c of 0..n-1 for
\* which the result is_valid(), in increasing column order and each column
\* once; for a state with no empty row it returns the empty sequence.
C20_SuccessorsAreTheValidPlacements ==
    pc = "returned" =>
        IF EmptyRows(board) = {}
        THEN succs = << >>
        ELSE LET r == MinOf(EmptyRows(board))
             IN  /\ Len(succs) = Cardinality(ValidColumns(board, r))
                 /\ \A i \in 1..Len(succs) :
                       /\ succs[i][r] \in ValidColumns(board, r)
                       /\ succs[i] = [board EXCEPT ![r] = succs[i][r]]
                 /\ \A i \in 1..Len(succs) : \A j \in 1..Len(succs) :
                       i < j => succs[i][r] < succs[j][r]

C20_Witness ==
    /\ pc = "returned"
    /\ Len(board) = 4
    /\ board[1] = 0
    /\ EmptyRows(board) = {2, 3, 4}
    /\ Len(succs) = 2
    /\ succs[1][2] = 2
    /\ succs[2][2] = 3

\* C21: every state that is ever in the frontier of A* or greedy, the search
\* started from the empty board, has count_conflicts() = 0, so that
\* attacking_pairs_heuristic is 0 on every state the algorithms rank.
C21_FrontierHasNoConflicts ==
    pc \in {"loop", "done"} =>
        \A e \in BagToSet(open_set) :
            /\ count_conflicts(e[3]) = 0
            /\ attacking_pairs_heuristic(e[3]) = 0
            /\ (heur = "attacking_pairs" /\ alg = "greedy") => e[1] = 0
            /\ (heur = "attacking_pairs" /\ alg = "astar") => e[1] = e[2]

C21_Witness ==
    /\ pc = "loop"
    /\ heur = "attacking_pairs"
    /\ \E e \in BagToSet(open_set) :
            /\ count_queens(e[3]) >= 3
            /\ count_conflicts(e[3]) = 0
    /\ \E e \in BagToSet(open_set) : count_queens(e[3]) = 2

\* the placements with fewer queens than rows that repeated get_successors()
\* calls reach from a state, the state included
RECURSIVE PartialPlacements(_)
PartialPlacements(positions) ==
    IF count_queens(positions) = Len(positions)
    THEN {}
    ELSE {positions} \cup
         UNION {PartialPlacements(get_successors(positions)[i]) :
                    i \in 1..Len(get_successors(positions))}

\* the states a search has popped and expanded or returned
Explored ==
    IF alg = "greedy"
    THEN visited
    ELSE DOMAIN g_score \ {e[3] : e \in BagToSet(open_set)}

Generated ==
    IF alg = "astar"
    THEN DOMAIN g_score
    ELSE {EmptyBoard(n)} \cup DOMAIN came_from

\* what the counters and the frontier of a search are to each other
CountsBalance(generated, explored, heap, all) ==
    /\ generated = explored + BagCardinality(heap)
    /\ generated = Cardinality(all)

\* C23: in A* and greedy started from the empty board no state is generated
\* twice: every generated successor is absent from g_score (A*) or visited
\* (greedy) and is pushed exactly once, the g-improvement branch of A* never
\* fires, at every loop head states_generated = states_explored + the number
\* of frontier entries, and states_generated = states_explored when the
\* frontier is exhausted.
C23_NothingGeneratedTwice ==
    [][pc = "loop" =>
        /\ CountsBalance(states_generated, states_explored, open_set,
                         Generated)
        /\ CountsBalance(states_generated', states_explored', open_set',
                         Generated')
        /\ ended' = "exhausted" => states_generated' = states_explored'
        /\ \A e \in Taken :
              LET successors == IF is_goal(e[3])
                                THEN << >>
                                ELSE get_successors(e[3])
              IN  /\ \A i \in 1..Len(successors) :
                        /\ successors[i] \notin Generated
                        /\ alg = "greedy" => successors[i] \notin visited'
                  /\ {p[3] : p \in Put}
                        = {successors[i] : i \in 1..Len(successors)}
                  /\ Cardinality(Put) = Len(successors)
                  /\ \A p \in Put : CopiesIn(p, open_set') = 1
                  /\ states_generated' = states_generated + Len(successors)
       ]_vars

C23_Witness ==
    /\ pc = "done"
    /\ ended = "exhausted"
    /\ alg = "astar"
    /\ n = 3
    /\ states_generated = 6
    /\ states_explored = 6
    /\ Cardinality(DOMAIN g_score) = 6

\* C24: for every row-assignment sequence over -1..n-1, filled in row order
\* or not, is_valid() is true exactly when count_conflicts() = 0, and for a
\* sequence with every row filled is_goal() agrees with validate_solution
\* on its positions.
C24_PredicatesAgree ==
    pc = "judged" =>
        /\ ret.is_valid = (ret.count_conflicts = 0)
        /\ EmptyRows(board) = {} => ret.is_goal = ret.validate_solution

C24_Witness ==
    /\ pc = "judged"
    /\ board = <<1, 3, 0, 2>>
    /\ ret.is_valid
    /\ ret.count_conflicts = 0
    /\ ret.is_goal
    /\ ret.validate_solution

\* C25: solve_n_queens(n, ['astar', 'greedy']) returns its results for every
\* n >= 1 and every combination of outcomes of the two searches and never
\* raises: when A* ends without a solution while Greedy ends with one and
\* n <= 15, the comparison with the A* solution reads no absent solution.
C25_SolveNeverRaises ==
    (n >= 1 /\ run = 2 /\ pc \in {"solved", "raised"}) =>
        /\ pc = "solved"
        /\ (/\ ~first.solution_found
            /\ result.solution_found
            /\ n <= PrintLimit) => pc # "raised"

====
